---------------------------- MODULE Spec2Model ----------------------------
(***************************************************************************)
(* A model of utils/losses.py: the mask-overlap metrics, the rotation      *)
(* metrics and the GANLoss module.                                         *)
(*                                                                         *)
(* Tensors are sequences (of sequences) of numbers.  Real numbers are      *)
(* exact fractions <<n, d>> in lowest terms with d > 0; a zero denominator *)
(* stands for the IEEE results of a division by zero: <<0, 0>> is NaN,     *)
(* <<1, 0>> and <<-1, 0>> are the infinities.  Floating-point rounding is  *)
(* not modelled: every value is the exact real the formula denotes.        *)
(***************************************************************************)
EXTENDS Integers, Sequences, FiniteSets, TLC

VARIABLES
    op,                 \* the operation of the call at hand
    args,               \* the arguments of the call
    result,             \* what the call gave: a status and a value
    constructed,        \* "none", "ok" or "ValueError": GANLoss.__init__'s outcome
    message,            \* the text of the error __init__ raised
    gan_mode,           \* self.gan_mode
    real_label,         \* self.real_label
    fake_label,         \* self.fake_label
    real_label_tensor,  \* self.real_label_tensor: <<>> is None, <<v>> a 1-element tensor
    fake_label_tensor,  \* self.fake_label_tensor
    zero_tensor         \* self.zero_tensor

vars == <<op, args, result, constructed, message, gan_mode, real_label, fake_label,
          real_label_tensor, fake_label_tensor, zero_tensor>>

ganVars == <<constructed, message, gan_mode, real_label, fake_label,
             real_label_tensor, fake_label_tensor, zero_tensor>>

-----------------------------------------------------------------------------
(* Bounds of the model. *)

MaxRows == 2        \* rows of a rotation tensor given to geodesic_distance
MaxHyp == 2         \* hypotheses per batch element in agreement_score
MaxBatch == 1       \* batch elements in agreement_score
MaxChan == 2        \* channels of a mask given to mean_miou_noreduce
MaxPix == 2         \* pixels of a spatial map (H*W, flattened)
MaxScales == 2      \* per-scale predictions in a list given to GANLoss

\* A sequence of length n whose first entry is a and whose other entries are b.
HeadTail(n, a, b) == [i \in 1..n |-> IF i = 1 THEN a ELSE b]

-----------------------------------------------------------------------------
(* Exact arithmetic. *)

Abs(x) == IF x < 0 THEN -x ELSE x

Sgn(x) == IF x < 0 THEN -1 ELSE IF x > 0 THEN 1 ELSE 0

RECURSIVE GCD(_, _)
GCD(a, b) == IF b = 0 THEN a ELSE GCD(b, a % b)

\* n/d in lowest terms; n/0 is NaN or an infinity.
Frac(n, d) ==
    IF d = 0 THEN <<Sgn(n), 0>>
    ELSE LET g == GCD(Abs(n), Abs(d))
         IN  <<(Sgn(d) * n) \div g, Abs(d) \div g>>

NaN == <<0, 0>>

Num(n) == <<n, 1>>

IsFinite(x) == x[2] # 0

RAdd(x, y) ==
    CASE IsFinite(x) /\ IsFinite(y) -> Frac(x[1] * y[2] + y[1] * x[2], x[2] * y[2])
      [] x = NaN \/ y = NaN -> NaN
      [] IsFinite(x) -> y
      [] IsFinite(y) -> x
      [] OTHER -> IF x = y THEN x ELSE NaN

RNeg(x) == <<-x[1], x[2]>>

RSub(x, y) == RAdd(x, RNeg(y))

RMul(x, y) ==
    IF IsFinite(x) /\ IsFinite(y) THEN Frac(x[1] * y[1], x[2] * y[2])
    ELSE <<Sgn(x[1]) * Sgn(y[1]), 0>>

RDiv(x, y) ==
    CASE IsFinite(x) /\ IsFinite(y) -> Frac(x[1] * y[2], x[2] * y[1])
      [] IsFinite(y) -> <<x[1] * (IF y[1] < 0 THEN -1 ELSE 1), 0>>
      [] IsFinite(x) /\ y # NaN -> Num(0)
      [] OTHER -> NaN

RLess(x, y) == IsFinite(x) /\ IsFinite(y) /\ x[1] * y[2] < y[1] * x[2]

RECURSIVE RSum(_)
RSum(s) == IF s = <<>> THEN Num(0) ELSE RAdd(s[1], RSum(Tail(s)))

RECURSIVE ISum(_)
ISum(s) == IF s = <<>> THEN 0 ELSE s[1] + ISum(Tail(s))

\* torch.mean of the entries of s: NaN for no entries.
RMean(s) == RDiv(RSum(s), Num(Len(s)))

RECURSIVE Pow2(_)
Pow2(k) == IF k = 0 THEN 1 ELSE 2 * Pow2(k - 1)

\* The entries of s at the positions where keep is TRUE, in order.
RECURSIVE Select(_, _)
Select(s, keep) ==
    IF s = <<>> THEN <<>>
    ELSE (IF keep[1] THEN <<s[1]>> ELSE <<>>) \o Select(Tail(s), Tail(keep))

Pending == [status |-> "pending"]

-----------------------------------------------------------------------------
(* geodesic_distance and agreement_score. *)

SENTINEL == -1000

RVals == {-1, 0, 1}

\* A row of a rotation tensor: two components.
PredRows == {<<a, b>> : a \in RVals, b \in RVals}

TargetRows == {<<a, b>> : a \in RVals \cup {SENTINEL}, b \in RVals}

Dot(u, v) == ISum([i \in 1..Len(u) |-> u[i] * v[i]])

\* tensor.shape of a 2-d tensor given as a sequence of rows of width 2
Shape2(t) == <<Len(t), 2>>

\* Mutant: the sentinel test is dropped and every row counts as valid.
ValidMaskAll(target) == [i \in 1..Len(target) |-> TRUE]

\* mask = target_rotations[:, 0] != -1000
ValidMask(target) == [i \in 1..Len(target) |-> target[i][1] # SENTINEL]

\* Mutant: the square written as a product by two.
RdistTwice(pred, target) ==
    [i \in 1..Len(pred) |-> Num(1 - Dot(pred[i], target[i]) * 2)]

\* Rdist = 1 - (predicted_rotations * target_rotations).sum(dim=-1)**2
Rdist(pred, target) ==
    [i \in 1..Len(pred) |-> Num(1 - Dot(pred[i], target[i]) * Dot(pred[i], target[i]))]

geodesic_distance(pred, target, return_count) ==
    IF Shape2(pred) # Shape2(target)
    THEN [status |-> "AssertionError", ret |-> <<>>]
    ELSE LET mask == ValidMask(target)
             count == Len(Select(mask, mask))
         IN  IF count = 0
             THEN [status |-> "returned",
                   ret |-> IF return_count THEN <<Num(0), Num(0)>> ELSE <<Num(0)>>]
             ELSE LET gd == RMean(Select(Rdist(pred, target), mask))
                  IN  [status |-> "returned",
                       ret |-> IF return_count THEN <<gd, Num(count)>> ELSE <<gd>>]

\* Confidences are k * temperature * ln 2 for an integer k, so that
\* exp(iou / temperature) is exactly 2^k.
ConfVals == {0, 1}

\* F.softmax(iou_or_miou / temperature, dim=1), for one batch element
Softmax(ks) ==
    LET total == ISum([i \in 1..Len(ks) |-> Pow2(ks[i])])
    IN  [i \in 1..Len(ks) |-> Frac(Pow2(ks[i]), total)]

\* Mutant: the square written as a product by two.
PairDistTwice(rots) ==
    [i \in 1..Len(rots) |->
        [j \in 1..Len(rots) |-> Num(1 - Dot(rots[i], rots[j]) * 2)]]

\* D = 1 - (rotations @ rotations.transpose(1, 2))**2, for one batch element
PairDist(rots) ==
    [i \in 1..Len(rots) |->
        [j \in 1..Len(rots) |-> Num(1 - Dot(rots[i], rots[j]) * Dot(rots[i], rots[j]))]]

\* (D * v_conf_mask).sum(dim=[1, 2]), for one batch element
AgreementOne(ks, rots) ==
    LET v_conf == Softmax(ks)
        D == PairDist(rots)
    IN  RSum([i \in 1..Len(rots) |->
                RSum([j \in 1..Len(rots) |->
                        RMul(D[i][j], RMul(v_conf[i], v_conf[j]))])])

agreement_score(iou, rotations) ==
    [status |-> "returned",
     ret |-> [b \in 1..Len(iou) |-> AgreementOne(iou[b], rotations[b])]]

Hyps == {<<k, r>> : k \in ConfVals, r \in PredRows}

\* The arguments of a call on n target rows (the first ta, the others tb) and
\* n + extra predicted rows (the first pa, the others pb).
GeoCall(n, extra, pa, pb, ta, tb, rc) ==
    [pred |-> HeadTail(n + extra, pa, pb), target |-> HeadTail(n, ta, tb),
     return_count |-> rc]

\* One batch element with h hypotheses, each a confidence and a rotation.
ElemsOf(h) == {HeadTail(h, x, y) : x \in Hyps, y \in Hyps}

\* The arguments of a call on a batch of n elements, the first x, the others y.
AgreeCall(n, x, y) ==
    LET batch == HeadTail(n, x, y)
    IN  [iou |-> [b \in 1..n |-> [i \in 1..Len(batch[b]) |-> batch[b][i][1]]],
         rotations |-> [b \in 1..n |-> [i \in 1..Len(batch[b]) |-> batch[b][i][2]]]]

NoInstance ==
    /\ constructed = "none"
    /\ message = ""
    /\ gan_mode = ""
    /\ real_label = Num(1)
    /\ fake_label = Num(0)
    /\ real_label_tensor = <<>>
    /\ fake_label_tensor = <<>>
    /\ zero_tensor = <<>>

InitRot ==
    /\ \/ /\ op = "geodesic_distance"
          /\ \E n \in 0..MaxRows, extra \in {0, 1}, rc \in BOOLEAN :
                \E pa \in PredRows, pb \in PredRows, ta \in TargetRows, tb \in TargetRows :
                   args = GeoCall(n, extra, pa, pb, ta, tb, rc)
       \/ /\ op = "agreement_score"
          /\ \E n \in 1..MaxBatch, h \in 1..MaxHyp :
                \E x \in ElemsOf(h), y \in ElemsOf(h) :
                   args = AgreeCall(n, x, y)
    /\ result = Pending
    /\ NoInstance

DoGeodesic ==
    /\ op = "geodesic_distance"
    /\ result = Pending
    /\ result' = geodesic_distance(args.pred, args.target, args.return_count)
    /\ UNCHANGED <<op, args, ganVars>>

DoAgreement ==
    /\ op = "agreement_score"
    /\ result = Pending
    /\ result' = agreement_score(args.iou, args.rotations)
    /\ UNCHANGED <<op, args, ganVars>>

NextRot == DoGeodesic \/ DoAgreement

SpecRot == InitRot /\ [][NextRot]_vars


-----------------------------------------------------------------------------
(* Properties of geodesic_distance and agreement_score. *)

GeoReturned == op = "geodesic_distance" /\ result.status = "returned"

\* The indices of the rows whose target does not carry the sentinel.
ValidRows(target) == {i \in 1..Len(target) : target[i][1] # SENTINEL}

\* The sum of 1 - (pred[i] . target[i])^2 over the rows of S.
RECURSIVE DistSum(_, _, _)
DistSum(pred, target, S) ==
    IF S = {} THEN 0
    ELSE LET i == CHOOSE j \in S : TRUE
         IN  (1 - Dot(pred[i], target[i]) * Dot(pred[i], target[i]))
                + DistSum(pred, target, S \ {i})

\* The sequence s with entry i replaced by x.
Replace(s, i, x) == [s EXCEPT ![i] = x]

\* C5: geodesic_distance leaves the sentinel rows out: the distance is the mean
\* of 1 - (pred . target)^2 over the rows whose target's first component is not
\* -1000, the count is the number of those rows, replacing the predicted or the
\* target values of a sentinel row (its sentinel kept) changes nothing, and with
\* no valid row the result is 0, or (0, 0) with return_count.
C5_SentinelRowsExcluded ==
    GeoReturned =>
        LET valid == ValidRows(args.target)
            n == Cardinality(valid)
            gd == IF n = 0 THEN Num(0)
                  ELSE Frac(DistSum(args.pred, args.target, valid), n)
        IN  /\ result.ret = IF args.return_count THEN <<gd, Num(n)>> ELSE <<gd>>
            /\ IsFinite(result.ret[1])
            /\ \A i \in (1..Len(args.target)) \ valid :
                 \A p \in PredRows, t \in {r \in TargetRows : r[1] = SENTINEL} :
                    geodesic_distance(Replace(args.pred, i, p), Replace(args.target, i, t),
                                      args.return_count) = result

\* C5's case: a call that returned with a sentinel row, whose product with the
\* prediction is not 0, and one valid row: the mean is the valid row's distance
\* and the count is 1.
C5_Witness ==
    /\ GeoReturned
    /\ args.return_count
    /\ Len(args.target) = 2
    /\ args.target[1][1] = SENTINEL
    /\ args.target[2][1] # SENTINEL
    /\ Dot(args.pred[1], args.target[1]) # 0
    /\ result.ret = <<Num(1), Num(1)>>

UnitRows(t) == \A i \in 1..Len(t) : Dot(t[i], t[i]) = 1

\* C6 as stated: for every tensor R with no sentinel row, geodesic_distance(R, R) is 0.
C6_Original ==
    (GeoReturned /\ args.pred = args.target /\ ValidRows(args.target) = 1..Len(args.target))
        => result.ret[1] = Num(0)

\* C6, amended: for every tensor R of unit-norm rows none of which carries the
\* sentinel, geodesic_distance(R, R) is 0.
C6_UnitRows ==
    (GeoReturned /\ args.pred = args.target /\ ValidRows(args.target) = 1..Len(args.target)
        /\ UnitRows(args.target))
        => result.ret[1] = Num(0)

C6_Witness ==
    /\ GeoReturned
    /\ args.pred = args.target
    /\ Len(args.target) = 2
    /\ UnitRows(args.target)
    /\ args.target[1] # args.target[2]
    /\ result.ret[1] = Num(0)

AgreeReturned == op = "agreement_score" /\ result.status = "returned"

\* C8 as stated: with one hypothesis per batch element the score is 0 for every
\* batch element, whatever the confidences and the rotations.
C8_Original ==
    (AgreeReturned /\ \A b \in 1..Len(args.iou) : Len(args.iou[b]) = 1)
        => \A b \in 1..Len(args.iou) : result.ret[b] = Num(0)

\* C8, amended: with one hypothesis per batch element the score of a batch
\* element is 0 whenever its rotation has unit norm, whatever the confidence
\* (and 1 - (r . r)^2 for a rotation r in general).
C8_UnitRotation ==
    (AgreeReturned /\ \A b \in 1..Len(args.iou) : Len(args.iou[b]) = 1)
        => \A b \in 1..Len(args.iou) :
              LET r == args.rotations[b][1]
              IN  /\ result.ret[b] = Num(1 - Dot(r, r) * Dot(r, r))
                  /\ Dot(r, r) = 1 => result.ret[b] = Num(0)

C8_Witness ==
    /\ AgreeReturned
    /\ Len(args.iou[1]) = 1
    /\ args.iou[1][1] = 1
    /\ Dot(args.rotations[1][1], args.rotations[1][1]) = 1
    /\ result.ret[1] = Num(0)


-----------------------------------------------------------------------------
(* mean_iou_noreduce and mean_miou_noreduce, for one sample.  A spatial map  *)
(* (its last two dimensions) is a sequence of pixels.                       *)

\* 1e-6 is 1 / EpsInv
EpsInv == 1000000

\* Alpha values are given in tenths: the threshold 0.5 is 5 tenths.
Threshold == 5

AlphaVals == {0, 5, 6, 10}

\* alpha > 0.5
Binarize(alpha) == [i \in 1..Len(alpha) |-> alpha[i] > Threshold]

CountTrue(b) == Len(Select(b, b))

\* (alpha_pred & alpha_real).float().sum(dim=[-1, -2])
IntersectionCount(p, r) == CountTrue([i \in 1..Len(p) |-> p[i] /\ r[i]])

\* Mutant: the union counted as the two masks' sizes added.
UnionCountAdded(p, r) == CountTrue(p) + CountTrue(r)

\* (alpha_pred | alpha_real).float().sum(dim=[-1, -2])
UnionCount(p, r) == CountTrue([i \in 1..Len(p) |-> p[i] \/ r[i]])

mean_iou_noreduce(alpha_pred, alpha_real) ==
    LET p == Binarize(alpha_pred)
        r == Binarize(alpha_real)
        intersection == IntersectionCount(p, r)
        union == UnionCount(p, r)
        divisor == Frac(union * EpsInv + 1, EpsInv)
    IN  [status |-> "returned",
         ret |-> RDiv(Num(intersection), divisor),
         divisors |-> <<divisor>>]

\* The values of a soft mask are whole multiples of 5e-7, half of the 1e-6 of
\* the source, which is EpsUnits of them.
EpsUnits == 2

MVals == {0, 1, 3}

Min(a, b) == IF a < b THEN a ELSE b

Max(a, b) == IF a < b THEN b ELSE a

\* torch.min(pred, target).sum(dim=[-1, -2]), per channel
MinSum(pred, target) ==
    [c \in 1..Len(pred) |-> ISum([i \in 1..Len(pred[c]) |-> Min(pred[c][i], target[c][i])])]

\* torch.max(pred, target).sum(dim=[-1, -2]), per channel
MaxSum(pred, target) ==
    [c \in 1..Len(pred) |-> ISum([i \in 1..Len(pred[c]) |-> Max(pred[c][i], target[c][i])])]

\* Mutant: a channel counts as non-empty as soon as its target mass is not 0.
WtsPositive(target) == [c \in 1..Len(target) |-> ISum(target[c]) > 0]

\* wts = target.sum(dim=[-1, -2]) > 1e-6
Wts(target) == [c \in 1..Len(target) |-> ISum(target[c]) > EpsUnits]

mean_miou_noreduce(pred, target, balanced) ==
    LET intersection == MinSum(pred, target)
        union == MaxSum(pred, target)
        C == Len(pred)
    IN  IF balanced
        THEN LET divs == [c \in 1..C |-> Num(union[c] + EpsUnits)]
                 iou == [c \in 1..C |-> RDiv(Num(intersection[c]), divs[c])]
                 wts == Wts(target)
                 wsum == Num(CountTrue(wts))
                 weighted == [c \in 1..C |-> RMul(iou[c], Num(IF wts[c] THEN 1 ELSE 0))]
             IN  [status |-> "returned",
                  ret |-> RDiv(RSum(weighted), wsum),
                  divisors |-> divs \o <<wsum>>]
        ELSE LET divisor == Num(ISum(union) + EpsUnits)
             IN  [status |-> "returned",
                  ret |-> RDiv(Num(ISum(intersection)), divisor),
                  divisors |-> <<divisor>>]

IouCall(n, a, b, c, d) ==
    [alpha_pred |-> HeadTail(n, a, b), alpha_real |-> HeadTail(n, c, d)]

\* The channels of one sample with n pixels: a predicted and a target map each.
ChannelsOf(n) ==
    { [pred |-> HeadTail(n, a, b), target |-> HeadTail(n, c, d)] :
        a \in MVals, b \in MVals, c \in MVals, d \in MVals }

\* The arguments of a call on a sample of k channels, the first x, the others y.
MiouCall(k, x, y, bal) ==
    [pred |-> [c \in 1..k |-> IF c = 1 THEN x.pred ELSE y.pred],
     target |-> [c \in 1..k |-> IF c = 1 THEN x.target ELSE y.target],
     balanced |-> bal]

InitMask ==
    /\ \/ /\ op = "mean_iou_noreduce"
          /\ \E n \in 0..MaxPix :
                \E a \in AlphaVals, b \in AlphaVals, c \in AlphaVals, d \in AlphaVals :
                   args = IouCall(n, a, b, c, d)
       \/ /\ op = "mean_miou_noreduce"
          /\ \E k \in 0..MaxChan, n \in 1..MaxPix :
                \E x \in ChannelsOf(n), y \in ChannelsOf(n), bal \in BOOLEAN :
                   args = MiouCall(k, x, y, bal)
    /\ result = Pending
    /\ NoInstance

DoMeanIou ==
    /\ op = "mean_iou_noreduce"
    /\ result = Pending
    /\ result' = mean_iou_noreduce(args.alpha_pred, args.alpha_real)
    /\ UNCHANGED <<op, args, ganVars>>

DoMeanMiou ==
    /\ op = "mean_miou_noreduce"
    /\ result = Pending
    /\ result' = mean_miou_noreduce(args.pred, args.target, args.balanced)
    /\ UNCHANGED <<op, args, ganVars>>

NextMask == DoMeanIou \/ DoMeanMiou

SpecMask == InitMask /\ [][NextMask]_vars

-----------------------------------------------------------------------------
(* Properties of mean_iou_noreduce and mean_miou_noreduce. *)

IouReturned == op = "mean_iou_noreduce" /\ result.status = "returned"

\* A binary mask holds only 0 and 1 (10 tenths).
IsBinary(a) == \A i \in 1..Len(a) : a[i] \in {0, 10}

Complement(a) == [i \in 1..Len(a) |-> 10 - a[i]]

SetPixels(a) == Cardinality({i \in 1..Len(a) : a[i] = 10})

\* |1 - x| <= 1e-6
NearOne(x) == IsFinite(x) /\ ~RLess(Frac(1, EpsInv), RSub(Num(1), x)) /\ ~RLess(Num(1), x)

\* C7 as stated: for every binary mask A, mean_iou_noreduce(A, A) is 1 up to the
\* 1e-6 of the denominator, and for every non-empty binary mask A,
\* mean_iou_noreduce(A, complement of A) is 0.
C7_Original ==
    (IouReturned /\ IsBinary(args.alpha_pred)) =>
        /\ args.alpha_real = args.alpha_pred => NearOne(result.ret)
        /\ (SetPixels(args.alpha_pred) > 0 /\ args.alpha_real = Complement(args.alpha_pred))
              => result.ret = Num(0)

\* C7, amended: for every binary mask A with k >= 1 set pixels,
\* mean_iou_noreduce(A, A) is k / (k + 1e-6), within 1e-6 of 1 (it is 0 for a
\* mask with no set pixel), and for every non-empty binary mask A,
\* mean_iou_noreduce(A, complement of A) is 0.
C7_NonEmptyMask ==
    (IouReturned /\ IsBinary(args.alpha_pred)) =>
        LET k == SetPixels(args.alpha_pred)
        IN  /\ (args.alpha_real = args.alpha_pred /\ k > 0) =>
                  /\ result.ret = Frac(k * EpsInv, k * EpsInv + 1)
                  /\ NearOne(result.ret)
            /\ (args.alpha_real = args.alpha_pred /\ k = 0) => result.ret = Num(0)
            /\ (k > 0 /\ args.alpha_real = Complement(args.alpha_pred))
                  => result.ret = Num(0)

C7_Witness ==
    /\ IouReturned
    /\ args.alpha_pred = <<10, 0>>
    /\ args.alpha_real = args.alpha_pred
    /\ result.ret = Frac(EpsInv, EpsInv + 1)

MiouReturned == op = "mean_miou_noreduce" /\ result.status = "returned"

\* The channels whose target mass exceeds 1e-6.
NonEmpty(target) == {c \in 1..Len(target) : ISum(target[c]) > EpsUnits}

\* The sum over the channels of S of intersection / (union + 1e-6).
RECURSIVE IouSum(_, _, _)
IouSum(pred, target, S) ==
    IF S = {} THEN Num(0)
    ELSE LET c == CHOOSE k \in S : TRUE
         IN  RAdd(Frac(MinSum(pred, target)[c], MaxSum(pred, target)[c] + EpsUnits),
                  IouSum(pred, target, S \ {c}))

\* The sequence s without its entry c.
Without(s, c) == [i \in 1..(Len(s) - 1) |-> IF i < c THEN s[i] ELSE s[i + 1]]

\* C9: with balanced=True the last divisor of mean_miou_noreduce is the number of
\* channels whose target mass exceeds 1e-6, the result is the plain average of
\* intersection / (union + 1e-6) over those channels, dropping a channel with an
\* empty target changes nothing, that divisor is 0 exactly when every channel is
\* empty, and no other divisor of the two functions is 0.
C9_BalancedDivisor ==
    /\ MiouReturned /\ args.balanced =>
         LET S == NonEmpty(args.target)
             n == Len(result.divisors)
         IN  /\ n = Len(args.target) + 1
             /\ result.divisors[n] = Num(Cardinality(S))
             /\ result.ret = RDiv(IouSum(args.pred, args.target, S), Num(Cardinality(S)))
             /\ S # {} => IsFinite(result.ret)
             /\ \A c \in (1..Len(args.target)) \ S :
                  mean_miou_noreduce(Without(args.pred, c), Without(args.target, c), TRUE).ret
                     = result.ret
             /\ result.divisors[n] = Num(0)
                  <=> \A c \in 1..Len(args.target) : ISum(args.target[c]) <= EpsUnits
             /\ \A k \in 1..(n - 1) : RLess(Num(0), result.divisors[k])
    /\ MiouReturned /\ ~args.balanced =>
         \A k \in 1..Len(result.divisors) : RLess(Num(0), result.divisors[k])
    /\ IouReturned =>
         \A k \in 1..Len(result.divisors) : RLess(Num(0), result.divisors[k])

\* C9's case: a balanced call on two channels, one with a target mass of 1e-6
\* (empty) that the prediction overlaps, one non-empty.
C9_Witness ==
    /\ MiouReturned
    /\ args.balanced
    /\ Len(args.target) = 2
    /\ ISum(args.target[1]) = EpsUnits
    /\ MinSum(args.pred, args.target)[1] > 0
    /\ ISum(args.target[2]) > EpsUnits
    /\ MinSum(args.pred, args.target)[2] > 0
    /\ result.divisors[3] = Num(1)

\* C9's other case: a balanced call whose channels are all empty divides 0 by 0.
C9_WitnessAllEmpty ==
    /\ MiouReturned
    /\ args.balanced
    /\ Len(args.target) = 2
    /\ result.divisors[3] = Num(0)
    /\ result.ret = NaN
-----------------------------------------------------------------------------
(* GANLoss.  A tensor is a sequence of batch rows, each the sequence of the  *)
(* row's entries (dimensions 1, 2 and 3 flattened).  A loss value is a pair *)
(* <<q, l>> of fractions standing for q + l * ln(1 + 1/e): the logarithm is *)
(* what binary cross-entropy adds for a logit of absolute value 1.          *)

\* The logits of a prediction.
PVals == {-1, 1}

LNum(q) == <<q, Num(0)>>

LNaN == LNum(NaN)

\* A value with a non-finite part is that non-finite value.
LNorm(q, l) == IF IsFinite(q) /\ IsFinite(l) THEN <<q, l>> ELSE IF IsFinite(q) THEN LNaN ELSE LNum(q)

LAdd(x, y) == LNorm(RAdd(x[1], y[1]), RAdd(x[2], y[2]))

LNeg(x) == <<RNeg(x[1]), RNeg(x[2])>>

\* x / r for a fraction r
LDiv(x, r) == LNorm(RDiv(x[1], r), IF x[2] = Num(0) THEN Num(0) ELSE RDiv(x[2], r))

RMin(x, y) == IF RLess(y, x) THEN y ELSE x

RECURSIVE Flat(_)
Flat(t) == IF t = <<>> THEN <<>> ELSE t[1] \o Flat(Tail(t))

\* tensor.shape
Shape(t) == <<Len(t), Len(t[1])>>

\* The tensor t with f applied to every entry.
Map(t, f(_)) == [b \in 1..Len(t) |-> [i \in 1..Len(t[b]) |-> f(t[b][i])]]

NoMask == [kind |-> "none", val |-> <<>>]

TensorMask(m) == [kind |-> "tensor", val |-> m]

ListMask(ms) == [kind |-> "list", val |-> ms]

NoWeight == [kind |-> "none", val |-> <<>>]

ListWeight(ws) == [kind |-> "list", val |-> ws]

TensorInput(t) == [kind |-> "tensor", val |-> t]

ListInput(es) == [kind |-> "list", val |-> es]

\* Mutant: 'hinge' is not among the accepted modes.
ValidModesNoHinge == {"ls", "original", "w"}

\* the modes __init__ accepts
ValidModes == {"ls", "original", "w", "hinge"}

\* The instance __init__ leaves behind, and whether it raised.
GANLoss_init(mode, target_real_label, target_fake_label) ==
    [self |-> [gan_mode |-> mode,
               real_label |-> target_real_label,
               fake_label |-> target_fake_label,
               real_label_tensor |-> <<>>,
               fake_label_tensor |-> <<>>,
               zero_tensor |-> <<>>],
     status |-> IF mode \in ValidModes THEN "ok" ELSE "ValueError",
     message |-> IF mode \in ValidModes THEN "" ELSE "Unexpected gan_mode " \o mode]

\* Mutant: one slot caches both labels: the fake branch tests and fills the
\* real label's slot.
get_target_tensor_shared(self, target_is_real) ==
    LET filled == IF self.real_label_tensor = <<>>
                  THEN [self EXCEPT !.real_label_tensor =
                            <<IF target_is_real THEN self.real_label ELSE self.fake_label>>]
                  ELSE self
    IN  [self |-> filled, value |-> filled.real_label_tensor[1]]

\* The instance after the call and the label every entry of the expanded
\* tensor holds.
get_target_tensor(self, target_is_real) ==
    IF target_is_real
    THEN LET filled == IF self.real_label_tensor = <<>>
                       THEN [self EXCEPT !.real_label_tensor = <<self.real_label>>]
                       ELSE self
         IN  [self |-> filled, value |-> filled.real_label_tensor[1]]
    ELSE LET filled == IF self.fake_label_tensor = <<>>
                       THEN [self EXCEPT !.fake_label_tensor = <<self.fake_label>>]
                       ELSE self
         IN  [self |-> filled, value |-> filled.fake_label_tensor[1]]

get_zero_tensor(self) ==
    LET filled == IF self.zero_tensor = <<>>
                  THEN [self EXCEPT !.zero_tensor = <<Num(0)>>]
                  ELSE self
    IN  [self |-> filled, value |-> filled.zero_tensor[1]]

\* x is a tensor of fractions, mask is NoMask or a TensorMask, weight is <<>>
\* (None) or <<w>>.
GANLoss_mean(x, mask, weight) ==
    LET w == IF weight = <<>> THEN Num(1) ELSE Num(weight[1])
    IN  IF mask.kind = "none"
        THEN [status |-> "ok", value |-> RMul(RMean(Flat(x)), w)]
        ELSE IF Shape(x) # Shape(mask.val)
        THEN [status |-> "AssertionError", value |-> NaN]
        ELSE LET ret == [b \in 1..Len(x) |->
                            RDiv(RSum([i \in 1..Len(x[b]) |->
                                          RMul(x[b][i], Num(mask.val[b][i]))]),
                                 Num(ISum(mask.val[b])))]
             IN  [status |-> "ok", value |-> RMul(RMean(ret), w)]

\* F.binary_cross_entropy_with_logits(input, target), every entry of target t:
\* the mean of max(x, 0) - x * t + ln(1 + exp(-|x|)), and |x| = 1.
BCEWithLogits(input, t) ==
    LET term(x) == RAdd(RMul(RSub(Num(1), t), Num(x)), Num(IF x < 0 THEN -x ELSE 0))
        one(x) == Num(1)
    IN  <<RMean(Flat(Map(input, term))), RMean(Flat(Map(input, one)))>>

\* F.mse_loss(input, target), every entry of target t
MSELoss(input, t) ==
    LET sq(x) == RMul(RSub(Num(x), t), RSub(Num(x), t))
    IN  LNum(RMean(Flat(Map(input, sq))))

\* Mutant: the generator's hinge loss accepts any target.
GeneratorTargetAny(target_is_real) == TRUE

\* assert target_is_real, "The generator's hinge loss must be aiming for real"
GeneratorTargetOk(target_is_real) == target_is_real

\* The instance after the call, how the call ended and the loss it returned.
GANLoss_loss(self, input, target_is_real, for_discriminator, mask, weight) ==
    LET num(x) == Num(x)
    IN
    CASE self.gan_mode = "original" ->
            LET t == get_target_tensor(self, target_is_real)
            IN  [self |-> t.self, status |-> "ok", value |-> BCEWithLogits(input, t.value)]
      [] self.gan_mode = "ls" ->
            LET t == get_target_tensor(self, target_is_real)
            IN  [self |-> t.self, status |-> "ok", value |-> MSELoss(input, t.value)]
      [] self.gan_mode = "hinge" ->
            IF for_discriminator
            THEN LET z == get_zero_tensor(self)
                     real(x) == RMin(Num(x - 1), z.value)
                     fake(x) == RMin(Num(-x - 1), z.value)
                     minval == IF target_is_real THEN Map(input, real) ELSE Map(input, fake)
                     m == GANLoss_mean(minval, mask, weight)
                 IN  [self |-> z.self, status |-> m.status,
                      value |-> IF m.status = "ok" THEN LNum(RNeg(m.value)) ELSE LNaN]
            ELSE IF ~GeneratorTargetOk(target_is_real)
            THEN [self |-> self, status |-> "AssertionError", value |-> LNaN]
            ELSE LET m == GANLoss_mean(Map(input, num), mask, weight)
                 IN  [self |-> self, status |-> m.status,
                      value |-> IF m.status = "ok" THEN LNum(RNeg(m.value)) ELSE LNaN]
      [] OTHER ->
            LET m == RMean(Flat(Map(input, num)))
            IN  [self |-> self, status |-> "ok",
                 value |-> IF target_is_real THEN LNum(RNeg(m)) ELSE LNum(m)]

Failed(self, error) == [self |-> self, status |-> error, value |-> LNaN]

\* The loop of __call__ from scale idx on, loss being the sum so far.
RECURSIVE CallLoop(_, _, _, _)
CallLoop(self, a, idx, loss) ==
    IF idx > Len(a.input.val)
    THEN [self |-> self, status |-> "ok", value |-> loss]
    ELSE LET e == a.input.val[idx]
         IN  IF e.kind = "list" /\ e.val = <<>>
             THEN Failed(self, "IndexError")
             ELSE IF a.weight.kind = "list" /\ idx > Len(a.weight.val)
             THEN Failed(self, "IndexError")
             ELSE LET pred_i == IF e.kind = "list" THEN e.val[Len(e.val)] ELSE e.val
                      mask_i == IF a.mask.kind = "none" THEN NoMask
                                ELSE TensorMask(a.mask.val[idx])
                      weight_i == IF a.weight.kind = "none" THEN <<>>
                                  ELSE <<a.weight.val[idx]>>
                      r == GANLoss_loss(self, pred_i, a.target_is_real,
                                        a.for_discriminator, mask_i, weight_i)
                  IN  IF r.status # "ok"
                      THEN Failed(r.self, r.status)
                      ELSE CallLoop(r.self, a, idx + 1, LAdd(loss, r.value))

\* The instance after the call, how the call ended and the value it returned.
GANLoss_call(self, a) ==
    IF a.input.kind = "list"
    THEN IF a.mask.kind # "none" /\ a.mask.kind # "list"
         THEN Failed(self, "AssertionError")
         ELSE IF a.mask.kind = "list" /\ Len(a.input.val) # Len(a.mask.val)
         THEN Failed(self, "AssertionError")
         ELSE LET r == CallLoop(self, a, 1, LNum(Num(0)))
                  n == Len(a.input.val)
              IN  IF r.status # "ok" THEN r
                  ELSE IF a.weight.kind = "none"
                  THEN IF n = 0 THEN Failed(r.self, "ZeroDivisionError")
                       ELSE [r EXCEPT !.value = LDiv(r.value, Num(n))]
                  ELSE IF n = 0 /\ ISum(a.weight.val) = 0
                  THEN Failed(r.self, "ZeroDivisionError")
                  ELSE [r EXCEPT !.value = LDiv(r.value, Num(ISum(a.weight.val)))]
    ELSE GANLoss_loss(self, a.input.val, a.target_is_real, a.for_discriminator,
                      a.mask, <<>>)

\* The instance the variables hold.
Self ==
    [gan_mode |-> gan_mode, real_label |-> real_label, fake_label |-> fake_label,
     real_label_tensor |-> real_label_tensor, fake_label_tensor |-> fake_label_tensor,
     zero_tensor |-> zero_tensor]

\* The instance as __init__ left it.
Fresh(self) ==
    [self EXCEPT !.real_label_tensor = <<>>, !.fake_label_tensor = <<>>,
                 !.zero_tensor = <<>>]

SetSelf(self) ==
    /\ gan_mode' = self.gan_mode
    /\ real_label' = self.real_label
    /\ fake_label' = self.fake_label
    /\ real_label_tensor' = self.real_label_tensor
    /\ fake_label_tensor' = self.fake_label_tensor
    /\ zero_tensor' = self.zero_tensor

Outcome(r) == [status |-> r.status, value |-> r.value]

CallArgs(input, tir, fd, mask, weight) ==
    [input |-> input, target_is_real |-> tir, for_discriminator |-> fd,
     mask |-> mask, weight |-> weight]

(* One call on a fresh instance: the arguments are drawn at the start. *)

\* Predictions of shape (1, 2)
PredT == {<<<<a, b>>>> : a \in PVals, b \in PVals}

Negated(t) == [b \in 1..Len(t) |-> [i \in 1..Len(t[b]) |-> -t[b][i]]]

\* The entries of a list input: a tensor, or a nested list of which the last
\* entry counts.
Entries ==
    {TensorInput(t) : t \in PredT}
        \cup {ListInput(<<>>)}
        \cup {ListInput(<<<<<<a, a>>>>>>) : a \in PVals}
        \cup {ListInput(<<Negated(<<<<a, a>>>>), <<<<a, a>>>>>>) : a \in PVals}

\* Masks of shape (1, 2), and one of shape (2, 1)
MaskT == {<<<<1, 1>>>>, <<<<1, 0>>>>, <<<<0, 0>>>>}

MaskBadShape == <<<<1>>, <<1>>>>

WVals == {1, 2}

\* The masks tried with a list of n predictions: none, a mask that is no list,
\* a list of another length, a list of n masks.
MaskChoices(n) ==
    {NoMask, TensorMask(<<<<1, 1>>>>)}
        \cup {ListMask(HeadTail(k, <<<<1, 1>>>>, <<<<1, 1>>>>)) :
                k \in (0..(MaxScales + 1)) \ {n}}
        \cup {ListMask(HeadTail(n, x, y)) :
                x \in MaskT \cup {MaskBadShape}, y \in MaskT \cup {MaskBadShape}}

\* The weights tried with a list of n predictions: none, a list of another
\* length, a list of n weights.
WeightChoices(n) ==
    {NoWeight}
        \cup {ListWeight(HeadTail(k, 1, 1)) : k \in (0..(MaxScales + 1)) \ {n}}
        \cup {ListWeight(HeadTail(n, x, y)) : x \in WVals, y \in WVals}

InitCall ==
    /\ op = "__call__"
    /\ result = Pending
    /\ constructed = "ok"
    /\ message = ""
    /\ gan_mode \in ValidModes
    /\ real_label = Num(1)
    /\ fake_label = Num(0)
    /\ real_label_tensor = <<>>
    /\ fake_label_tensor = <<>>
    /\ zero_tensor = <<>>
    /\ \E tir \in BOOLEAN, fd \in BOOLEAN :
         \/ \E t \in PredT, m \in {NoMask} \cup {TensorMask(x) : x \in MaskT \cup {MaskBadShape}},
               w \in {NoWeight, ListWeight(<<2>>)} :
               args = CallArgs(TensorInput(t), tir, fd, m, w)
         \/ \E n \in 0..MaxScales :
               \E a \in Entries, b \in Entries, m \in MaskChoices(n), w \in WeightChoices(n) :
                  args = CallArgs(ListInput(HeadTail(n, a, b)), tir, fd, m, w)

DoCall ==
    /\ op = "__call__"
    /\ constructed = "ok"
    /\ result = Pending
    /\ \E r \in {GANLoss_call(Self, args)} :
           /\ result' = Outcome(r)
           /\ SetSelf(r.self)
    /\ UNCHANGED <<op, args, constructed, message>>

NextCall == DoCall

SpecCall == InitCall /\ [][NextCall]_vars

(* An instance from its construction on, called again and again. *)

ModeInputs == {"ls", "original", "w", "hinge", "bogus", "LS", "lsgan", ""}

LabelPairs == {<<Num(1), Num(0)>>, <<Frac(9, 10), Frac(1, 10)>>}

InitGAN ==
    /\ op = "__init__"
    /\ args = <<>>
    /\ result = Pending
    /\ NoInstance

Construct ==
    /\ constructed = "none"
    /\ \E mode \in ModeInputs, labels \in LabelPairs :
         \E r \in {GANLoss_init(mode, labels[1], labels[2])} :
             /\ constructed' = r.status
             /\ message' = r.message
             /\ SetSelf(r.self)
    /\ UNCHANGED <<op, args, result>>

SmallPred == {<<<<a, 1>>>> : a \in PVals}

SmallEntries == {TensorInput(t) : t \in SmallPred} \cup {ListInput(<<>>)}

SmallMasks == {<<>>, <<<<1, 0>>>>, MaskBadShape}

\* A call on the instance, when no call is under way.
Call ==
    /\ constructed = "ok"
    /\ result = Pending
    /\ \E tir \in BOOLEAN, fd \in BOOLEAN, mk \in SmallMasks :
         \E a \in
              {CallArgs(TensorInput(t), tir, fd,
                        IF mk = <<>> THEN NoMask ELSE TensorMask(mk), NoWeight) :
                  t \in SmallPred}
              \cup UNION { {CallArgs(ListInput(HeadTail(n, x, y)), tir, fd,
                                     IF mk = <<>> THEN NoMask
                                     ELSE ListMask(HeadTail(n, mk, mk)), w) :
                               x \in SmallEntries, y \in SmallEntries,
                               w \in {NoWeight, ListWeight(HeadTail(n, 2, 1))}} :
                           n \in 0..MaxScales } :
            \E r \in {GANLoss_call(Self, a)} :
                /\ op' = "__call__"
                /\ args' = a
                /\ result' = Outcome(r)
                /\ SetSelf(r.self)
    /\ UNCHANGED <<constructed, message>>

\* The caller takes the outcome of the call; the instance is idle again.
Return ==
    /\ op = "__call__"
    /\ result # Pending
    /\ op' = "idle"
    /\ args' = <<>>
    /\ result' = Pending
    /\ UNCHANGED ganVars

NextGAN == Construct \/ Call \/ Return

SpecGAN == InitGAN /\ [][NextGAN]_vars
-----------------------------------------------------------------------------
(* Properties of GANLoss. *)

\* C1: __init__ succeeds exactly when gan_mode is 'ls', 'original', 'w' or
\* 'hinge'; for any other value it raises ValueError with a message that names
\* the value, and the instance is never called.
C1_ModeValidation ==
    constructed # "none" =>
        /\ constructed \in {"ok", "ValueError"}
        /\ constructed = "ok" <=> gan_mode \in {"ls", "original", "w", "hinge"}
        /\ constructed = "ok" => message = ""
        /\ constructed = "ValueError" =>
              /\ message = "Unexpected gan_mode " \o gan_mode
              /\ op = "__init__"
              /\ args = <<>>
              /\ result = Pending

C1_Witness ==
    /\ constructed = "ValueError"
    /\ gan_mode = "bogus"
    /\ message = "Unexpected gan_mode bogus"

Called == op = "__call__" /\ result # Pending

\* The masked mean GANLoss.mean documents: per batch row the sum of x * mask
\* over the sum of mask, averaged over the rows; the plain mean without a mask.
MaskedMean(x, mask) ==
    IF mask.kind = "none"
    THEN Frac(ISum(Flat(x)), Len(Flat(x)))
    ELSE RMean([b \in 1..Len(x) |->
                  Frac(ISum([i \in 1..Len(x[b]) |-> x[b][i] * mask.val[b][i]]),
                       ISum(mask.val[b]))])

HingeGenerator == Called /\ gan_mode = "hinge" /\ ~args.for_discriminator

\* The mask of a call on a list passes __call__'s own assertions.
MaskListOk == args.mask.kind = "none"
                \/ (args.mask.kind = "list" /\ Len(args.mask.val) = Len(args.input.val))

C3_Original ==
    (Called /\ args.input.kind = "list" /\ Len(args.input.val) > 0
       /\ \/ (args.mask.kind = "list" /\ Len(args.mask.val) # Len(args.input.val))
          \/ (args.weight.kind = "list" /\ Len(args.weight.val) # Len(args.input.val)))
        => result.status # "ok"

\* The tensor a list entry contributes: a nested list's last.
LastOf(e) == IF e.kind = "list" THEN e.val[Len(e.val)] ELSE e.val

\* The loss of scale i alone, with its mask and without its weight.
ScaleLoss(i) ==
    GANLoss_loss(Fresh(Self), LastOf(args.input.val[i]), args.target_is_real,
                 args.for_discriminator,
                 IF args.mask.kind = "none" THEN NoMask ELSE TensorMask(args.mask.val[i]),
                 <<>>).value

WeightAt(i) == IF args.weight.kind = "none" THEN 1 ELSE args.weight.val[i]

\* x * k for a whole number k
LScale(x, k) == <<RMul(x[1], Num(k)), RMul(x[2], Num(k))>>

RECURSIVE WeightedLossSum(_)
WeightedLossSum(n) ==
    IF n = 0 THEN LNum(Num(0))
    ELSE LAdd(WeightedLossSum(n - 1), LScale(ScaleLoss(n), WeightAt(n)))

\* C4 as stated: in every mode a call on a list of n >= 1 predictions (with no
\* weights, or n of them) that returns, returns sum_i(w_i * L_i) / sum_i(w_i),
\* L_i the masked loss of scale i and w_i its weight (1 without weights), and
\* with equal weights it returns what it returns without weights.
C4_Original ==
    (Called /\ args.input.kind = "list" /\ Len(args.input.val) > 0
       /\ result.status = "ok"
       /\ (args.weight.kind = "none" \/ Len(args.weight.val) = Len(args.input.val)))
        => LET n == Len(args.input.val)
               total == ISum([i \in 1..n |-> WeightAt(i)])
           IN  /\ result.value = LDiv(WeightedLossSum(n), Num(total))
               /\ (\A i \in 1..n : WeightAt(i) = WeightAt(1))
                    => result.value
                         = GANLoss_call(Fresh(Self), [args EXCEPT !.weight = NoWeight]).value

\* What holds of the code: C4's formula in 'hinge' mode.
C4_HingeOnly ==
    (Called /\ args.input.kind = "list" /\ Len(args.input.val) > 0
       /\ result.status = "ok" /\ gan_mode = "hinge"
       /\ (args.weight.kind = "none" \/ Len(args.weight.val) = Len(args.input.val)))
        => LET n == Len(args.input.val)
               total == ISum([i \in 1..n |-> WeightAt(i)])
           IN  result.value = LDiv(WeightedLossSum(n), Num(total))

\* A step of the instance that is a call.
IsCall == constructed = "ok" /\ result = Pending /\ op' = "__call__" /\ result' # Pending

C10_Step ==
    IsCall =>
        /\ real_label_tensor # <<>> => real_label_tensor' = real_label_tensor
        /\ fake_label_tensor # <<>> => fake_label_tensor' = fake_label_tensor
        /\ zero_tensor # <<>> => zero_tensor' = zero_tensor
        /\ (real_label_tensor = <<>> /\ real_label_tensor' # <<>>)
              => gan_mode \in {"original", "ls"} /\ args'.target_is_real
        /\ (fake_label_tensor = <<>> /\ fake_label_tensor' # <<>>)
              => gan_mode \in {"original", "ls"} /\ ~args'.target_is_real
        /\ (zero_tensor = <<>> /\ zero_tensor' # <<>>)
              => gan_mode = "hinge" /\ args'.for_discriminator
        /\ result' = Outcome(GANLoss_call(Fresh(Self), args'))

C10_Cached ==
    /\ real_label_tensor \in {<<>>, <<real_label>>}
    /\ fake_label_tensor \in {<<>>, <<fake_label>>}
    /\ zero_tensor \in {<<>>, <<Num(0)>>}
    /\ gan_mode = "w" =>
          real_label_tensor = <<>> /\ fake_label_tensor = <<>> /\ zero_tensor = <<>>

\* C10: over any sequence of calls on one instance each of the three cached
\* tensors is created at most once and never replaced, only by a call that needs
\* it (a label tensor in 'original' and 'ls' mode for the matching
\* target_is_real, the zero tensor in a 'hinge' discriminator call, none in 'w'
\* mode), holds its configured constant once present, and every call gives
\* what it gives on a freshly constructed instance of the same configuration.
C10_LabelTensorsCached == [][C10_Step]_vars /\ []C10_Cached

\* C10's case: an 'ls' or 'original' instance with smoothed labels, both label
\* tensors present, has just returned a loss.
C10_Witness ==
    /\ Called
    /\ result.status = "ok"
    /\ real_label = Frac(9, 10)
    /\ real_label_tensor = <<Frac(9, 10)>>
    /\ fake_label_tensor = <<Frac(1, 10)>>
    /\ args.input.kind = "list"

=============================================================================
